---- MODULE Spec2Model ----
(***************************************************************************)
(* The chunk-and-load pipelines (process_code.py, process_documents.py)    *)
(* and the file-deletion tool (delete_non_text_files.py) as one state      *)
(* machine.  A behaviour runs one of the three programs; the pipelines     *)
(* may be run again by the operator against the same directory and         *)
(* collection.  The vector store, the directory reader, the splitters and  *)
(* the embedder are external: each call either returns what its contract   *)
(* says or raises.                                                         *)
(***************************************************************************)
EXTENDS Integers, Sequences, FiniteSets, TLC

VARIABLES
    script,        \* which program runs: "code", "documents" or "delete"
    run,           \* number of the current invocation of the program
    pc,            \* position of the current invocation
    exit_status,   \* -1 while running, else the process exit status
    out,           \* what the current invocation has printed: set of <<tag, n>>
    dirExists,     \* os.path.exists(code_path / docs_path)
    files,         \* the files below the source directory, in reader order
    collection,    \* the destination collection in the store
    pending,       \* batches the store acknowledged (wait=False) and has not applied yet
    before,        \* the collection as it was when the invocation started
    documents,     \* SimpleDirectoryReader(...).load_data()
    docIdx,        \* the per-document loop of process_code
    all_nodes,     \* nodes produced so far
    points,        \* the PointStruct list
    upsertAt,      \* the loop variable i of the batch loop
    batches,       \* the upsert calls issued, in order
    killedAt,      \* pc at which the process was terminated ("" if it was not)
    args,          \* the deletion tool's parsed arguments
    response,      \* what the user typed at the confirmation prompt
    tree,          \* the files of the deletion tool's directory
    deleteCalls    \* how many times delete_non_text_files was called

pipeVars == <<dirExists, files, collection, pending, before, documents, docIdx,
              all_nodes, points, upsertAt, batches, killedAt>>
toolVars == <<args, response, tree, deleteCalls>>
vars == <<script, run, pc, exit_status, out, pipeVars, toolVars>>

----------------------------------------------------------------------------
(* Bounds of the model *)

\* invocations of a pipeline in one behaviour
MaxRuns == 2
\* files in the source directory
MaxFiles == 2
\* chunks a splitter returns for one document
MaxChunks == 2
\* batch_size of process_code.py (1000 there), scaled so that loads of several
\* batches, with a full and a short last batch, occur within MaxFiles * MaxChunks
batch_size == 2

----------------------------------------------------------------------------
(* Text *)

Upper == <<"A", "B", "C", "E", "N", "O", "P", "S", "X", "Y", "Z">>
Lower == <<"a", "b", "c", "e", "n", "o", "p", "s", "x", "y", "z">>

\* str.lower() on one character
LowerChar(c) ==
    IF \E k \in 1..Len(Upper) : Upper[k] = c
    THEN Lower[CHOOSE k \in 1..Len(Upper) : Upper[k] = c]
    ELSE c

\* str.lower()
lower(s) == [k \in 1..Len(s) |-> LowerChar(s[k])]

Digits == <<"0", "1", "2", "3", "4", "5", "6", "7", "8", "9">>

RECURSIVE str(_)
\* str(i) for an int i >= 0: its decimal digits
str(i) == IF i < 10 THEN <<Digits[i + 1]>> ELSE Append(str(i \div 10), Digits[(i % 10) + 1])

\* Path(p).suffix: from the last dot of the name, "" when there is none or
\* when the name starts with its only dot
suffix(name) ==
    LET dots == {k \in 2..Len(name) : name[k] = "."}
    IN  IF dots = {} \/ name[Len(name)] = "." THEN <<>>
        ELSE LET d == CHOOSE k \in dots : \A j \in dots : j <= k
             IN  SubSeq(name, d, Len(name))

----------------------------------------------------------------------------
(* The source directory *)

FileNames ==
    { <<"a", ".", "c", "s">>,           \* a.cs
      <<"b", ".", "C", "S">>,           \* b.CS
      <<"x", ".", "x", "y", "z">>,      \* x.xyz
      <<"n", "o", "p", "e">> }          \* nope (no extension)

\* the reader returns the files in sorted order: here by length, then by first letter
Precedes(f, g) ==
    \/ Len(f) < Len(g)
    \/ Len(f) = Len(g) /\ f[1] = "a" /\ g[1] # "a"
    \/ Len(f) = Len(g) /\ f[1] = "b" /\ g[1] = "n"

RECURSIVE Sorted(_)
Sorted(S) ==
    IF S = {} THEN <<>>
    ELSE LET f == CHOOSE x \in S : \A y \in S \ {x} : Precedes(x, y)
         IN  <<f>> \o Sorted(S \ {f})

\* the directory contents the model considers
Listings == {Sorted(S) : S \in {T \in SUBSET FileNames : Cardinality(T) <= MaxFiles}}

\* a Document of the reader: doc.metadata['file_path'], ['file_name']
Document(name) == [file_path |-> name, file_name |-> name]

----------------------------------------------------------------------------
(* Language Resolver *)

\* load_language_mappings(): language -> extensions, in file order
language_mappings ==
    << <<"csharp", {<<".", "c", "s">>}>>,
       <<"python", {<<".", "p", "y">>, <<".", "p", "y", "x">>}>> >>

None == "None"

get_language_from_extension(file_path, mappings) ==
    LET file_extension == lower(suffix(file_path))
        hits == {k \in 1..Len(mappings) : file_extension \in mappings[k][2]}
    IN  IF hits = {} THEN None
        ELSE mappings[CHOOSE k \in hits : \A j \in hits : k <= j][1]

----------------------------------------------------------------------------
(* Chunker *)

CodeSplitter == [kind |-> "CodeSplitter", chunk |-> 40, overlap |-> 15]
SentenceSplitter == [kind |-> "SentenceSplitter", chunk |-> 512, overlap |-> 50]

\* what the structure-aware path of one document can do
CodeSplitterOutcomes == {"ok", "parser_unavailable", "construction_error", "parse_error"}

\* node_parser.get_nodes_from_documents([doc]): n nodes, each with a fresh node_id,
\* the document's metadata and its piece of the text
get_nodes(splitter, doc, d, n, first) ==
    [j \in 1..n |->
        [node_id   |-> <<run, first + j>>,
         text      |-> <<d, j>>,
         file_path |-> doc.file_path,
         file_name |-> doc.file_name,
         splitter  |-> splitter]]

----------------------------------------------------------------------------
(* The vector store *)

VECTOR_NAME == "fast-all-minilm-l6-v2"

\* vectors_config of create_collection
VectorsConfig == [name |-> VECTOR_NAME, size |-> 384, distance |-> "Cosine"]
NoSchema == [name |-> "", size |-> 0, distance |-> ""]

NoCollection == [exists |-> FALSE, schema |-> NoSchema, points |-> {}]
EmptyCollection == [exists |-> TRUE, schema |-> VectorsConfig, points |-> {}]

\* Settings.embed_model: all-MiniLM-L6-v2 returns one 384-vector per text
Embedding(text) == [dim |-> 384, of |-> text]

\* PointStruct with the embedding as the default (unnamed) vector
PointStruct_defaultVector(node, i, embedding) ==
    [id      |-> node.node_id,
     vector  |-> [name |-> "", embedding |-> embedding],
     payload |-> [document |-> node.text,
                  metadata |-> [file_path |-> node.file_path,
                                file_name |-> node.file_name,
                                chunk_id  |-> str(i),
                                node_id   |-> node.node_id]]]

\* the PointStruct built for node number i (from 0) of the run
PointStruct(node, i, embedding) ==
    [id      |-> node.node_id,
     vector  |-> [name |-> VECTOR_NAME, embedding |-> embedding],
     payload |-> [document |-> node.text,
                  metadata |-> [file_path |-> node.file_path,
                                file_name |-> node.file_name,
                                chunk_id  |-> str(i),
                                node_id   |-> node.node_id]]]

\* a record left in the collection by an earlier load
OldPoint ==
    PointStruct([node_id |-> <<0, 1>>, text |-> <<1, 1>>,
                 file_path |-> <<"a", ".", "c", "s">>, file_name |-> <<"a", ".", "c", "s">>,
                 splitter |-> SentenceSplitter], 0, Embedding(<<1, 1>>))

\* upsert: insert-or-replace by id
Upserted(stored, batch) ==
    LET new == {batch[k] : k \in 1..Len(batch)}
    IN  {p \in stored : \A q \in new : q.id # p.id} \cup new

----------------------------------------------------------------------------
(* How an invocation ends.  Neither pipeline calls sys.exit: a return from    *)
(* process_code / process_documents ends the process with status 0, an       *)
(* exception that no handler catches ends it with a traceback and status 1.  *)

Pipelines == {"code", "documents"}

StartPc(s) == IF s = "code" THEN "mappings" ELSE "connect"

Running == exit_status = -1

\* `return` / `return None`, after printing msgs
Return(msgs) ==
    /\ pc' = "exited"
    /\ exit_status' = 0
    /\ out' = out \cup msgs

\* an exception outside every try block
Uncaught(msgs) ==
    /\ pc' = "exited"
    /\ exit_status' = 1
    /\ out' = out \cup msgs \cup {<<"traceback", 0>>}

\* except Exception as e: print("Error creating index"), traceback.print_exc(), return None
ErrorCreatingIndex(msgs) ==
    Return(msgs \cup {<<"error_creating_index", 0>>, <<"traceback", 0>>})

----------------------------------------------------------------------------
(* Pipeline Driver *)

InitPipeline ==
    /\ script \in Pipelines
    /\ run = 1
    /\ pc = StartPc(script)
    /\ exit_status = -1
    /\ out = {}
    /\ dirExists \in BOOLEAN
    /\ files \in (IF dirExists THEN Listings ELSE {<<>>})
    /\ collection \in {NoCollection, [EmptyCollection EXCEPT !.points = {OldPoint}]}
    /\ pending = <<>>
    /\ before = collection
    /\ documents = <<>>
    /\ docIdx = 1
    /\ all_nodes = <<>>
    /\ points = <<>>
    /\ upsertAt = 0
    /\ batches = <<>>
    /\ killedAt = ""
    /\ args = [dry_run |-> FALSE, yes |-> FALSE]
    /\ response = <<>>
    /\ tree = {}
    /\ deleteCalls = 0

\* process_code: language_mappings = load_language_mappings()
LoadMappings ==
    /\ script = "code" /\ pc = "mappings"
    /\ \E ok \in BOOLEAN :
         IF ok THEN /\ pc' = "connect"
                    /\ UNCHANGED <<exit_status, out>>
         ELSE Return({<<"failed_to_load_language_mappings", 0>>})
    /\ UNCHANGED <<script, run, pipeVars, toolVars>>

\* client = QdrantClient(...); collections = client.get_collections()
Connect ==
    /\ script \in Pipelines /\ pc = "connect"
    /\ \E ok \in BOOLEAN :
         IF ok THEN /\ pc' = "manage"
                    /\ out' = out \cup {<<"connected", 0>>}
                    /\ UNCHANGED exit_status
         ELSE Return({<<"failed_to_connect", 0>>})
    /\ UNCHANGED <<script, run, pipeVars, toolVars>>

\* DeleteCollection as an append-mode loader would do it: an existing collection is kept
DeleteCollection_append ==
    /\ script \in Pipelines /\ pc = "manage"
    /\ IF collection.exists
       THEN /\ pc' = "checkdir"
            /\ out' = out \cup {<<"using_existing_collection", 0>>}
       ELSE /\ pc' = "create"
            /\ out' = out \cup {<<"collection_doesnt_exist_yet", 0>>}
    /\ UNCHANGED <<script, run, exit_status, pipeVars, toolVars>>

\* if collection_name in collection_names: client.delete_collection(...)
\* Deleting a collection discards its records and every write to it not yet applied.
DeleteCollection ==
    /\ script \in Pipelines /\ pc = "manage"
    /\ IF collection.exists
       THEN \E ok \in BOOLEAN :
              IF ok THEN /\ collection' = NoCollection
                         /\ pending' = <<>>
                         /\ pc' = "create"
                         /\ out' = out \cup {<<"deleted_existing_collection", 0>>}
                         /\ UNCHANGED exit_status
              ELSE /\ Uncaught({})
                   /\ UNCHANGED <<collection, pending>>
       ELSE /\ pc' = "create"
            /\ out' = out \cup {<<"collection_doesnt_exist_yet", 0>>}
            /\ UNCHANGED <<exit_status, collection, pending>>
    /\ UNCHANGED <<script, run, dirExists, files, before, documents, docIdx, all_nodes,
                   points, upsertAt, batches, killedAt, toolVars>>

\* client.create_collection(collection_name, vectors_config={...})
CreateCollection ==
    /\ script \in Pipelines /\ pc = "create"
    /\ \E ok \in BOOLEAN :
         IF ok /\ ~collection.exists
         THEN /\ collection' = EmptyCollection
              /\ pc' = "checkdir"
              /\ UNCHANGED <<exit_status, out>>
         ELSE /\ Uncaught({})
              /\ UNCHANGED collection
    /\ UNCHANGED <<script, run, dirExists, files, pending, before, documents, docIdx,
                   all_nodes, points, upsertAt, batches, killedAt, toolVars>>

\* CheckDir without the os.makedirs call
CheckDir_noMakedirs ==
    /\ script \in Pipelines /\ pc = "checkdir"
    /\ IF ~dirExists
       THEN Return({<<"creating_directory", 0>>, <<"please_add_files_and_run_again", 0>>})
       ELSE /\ pc' = "load"
            /\ UNCHANGED <<exit_status, out>>
    /\ UNCHANGED <<script, run, pipeVars, toolVars>>

\* if not os.path.exists(path): os.makedirs(path); return
CheckDir ==
    /\ script \in Pipelines /\ pc = "checkdir"
    /\ IF ~dirExists
       THEN /\ dirExists' = TRUE
            /\ files' = <<>>
            /\ Return({<<"creating_directory", 0>>, <<"please_add_files_and_run_again", 0>>})
       ELSE /\ pc' = "load"
            /\ UNCHANGED <<exit_status, out, dirExists, files>>
    /\ UNCHANGED <<script, run, collection, pending, before, documents, docIdx, all_nodes,
                   points, upsertAt, batches, killedAt, toolVars>>

\* documents = SimpleDirectoryReader(input_dir=path, recursive=True).load_data()
LoadData ==
    /\ script \in Pipelines /\ pc = "load"
    /\ documents' = [k \in 1..Len(files) |-> Document(files[k])]
    /\ IF files = <<>>
       THEN Return({<<"no_files_found", 0>>})
       ELSE /\ pc' = IF script = "code" THEN "chunk" ELSE "split"
            /\ out' = out \cup {<<"loaded", Len(files)>>}
            /\ UNCHANGED exit_status
    /\ docIdx' = 1
    /\ UNCHANGED <<script, run, dirExists, files, collection, pending, before, all_nodes,
                   points, upsertAt, batches, killedAt, toolVars>>

----------------------------------------------------------------------------
(* Chunking *)

\* ChunkDocument without the except clause: a failure of the structure-aware path propagates
ChunkDocument_propagate(doc, d, outcome, n, first) ==
    LET language == get_language_from_extension(doc.file_path, language_mappings)
    IN  IF language = None
        THEN [nodes |-> <<>>, msgs |-> {<<"skipping_unsupported_file", d>>}, raised |-> FALSE]
        ELSE IF outcome = "ok"
        THEN [nodes  |-> get_nodes(CodeSplitter, doc, d, n, first),
              msgs   |-> {<<"processed", d>>},
              raised |-> FALSE]
        ELSE [nodes |-> <<>>, msgs |-> {<<"codesplitter_failed", d>>}, raised |-> TRUE]

\* ChunkDocument sending a file of unresolved language to the generic splitter
ChunkDocument_fallbackUnresolved(doc, d, outcome, n, first) ==
    LET language == get_language_from_extension(doc.file_path, language_mappings)
    IN  IF language # None /\ outcome = "ok"
        THEN [nodes  |-> get_nodes(CodeSplitter, doc, d, n, first),
              msgs   |-> {<<"processed", d>>},
              raised |-> FALSE]
        ELSE [nodes  |-> get_nodes(SentenceSplitter, doc, d, n, first),
              msgs   |-> {<<"falling_back_to_sentencesplitter", d>>},
              raised |-> FALSE]

\* The body of `for doc in documents` of process_code for document number d:
\* the nodes it adds to all_nodes and what it prints.  `outcome` is what the
\* structure-aware path does, n the number of chunks the splitter used returns.
ChunkDocument(doc, d, outcome, n, first) ==
    LET language == get_language_from_extension(doc.file_path, language_mappings)
    IN  IF language = None
        THEN [nodes |-> <<>>, msgs |-> {<<"skipping_unsupported_file", d>>}, raised |-> FALSE]
        ELSE IF outcome = "ok"
        THEN [nodes  |-> get_nodes(CodeSplitter, doc, d, n, first),
              msgs   |-> {<<"processed", d>>},
              raised |-> FALSE]
        ELSE [nodes  |-> get_nodes(SentenceSplitter, doc, d, n, first),
              msgs   |-> {<<"codesplitter_failed", d>>, <<"falling_back_to_sentencesplitter", d>>},
              raised |-> FALSE]

ChunkDoc ==
    /\ script = "code" /\ pc = "chunk" /\ docIdx <= Len(documents)
    /\ \E outcome \in CodeSplitterOutcomes, n \in 0..MaxChunks :
         LET r == ChunkDocument(documents[docIdx], docIdx, outcome, n, Len(all_nodes))
         IN  IF r.raised
             THEN /\ Uncaught(r.msgs)
                  /\ UNCHANGED <<all_nodes, docIdx>>
             ELSE /\ all_nodes' = all_nodes \o r.nodes
                  /\ docIdx' = docIdx + 1
                  /\ out' = out \cup r.msgs
                  /\ UNCHANGED <<pc, exit_status>>
    /\ UNCHANGED <<script, run, dirExists, files, collection, pending, before, documents,
                   points, upsertAt, batches, killedAt, toolVars>>

\* if not all_nodes: print("No processable code files found"); return
CheckNodes ==
    /\ script = "code" /\ pc = "chunk" /\ docIdx > Len(documents)
    /\ IF all_nodes = <<>>
       THEN Return({<<"no_processable_files", 0>>})
       ELSE /\ pc' = "embed"
            /\ out' = out \cup {<<"created_chunks", Len(all_nodes)>>}
            /\ UNCHANGED exit_status
    /\ UNCHANGED <<script, run, pipeVars, toolVars>>

RECURSIVE SplitAll(_, _, _, _)
\* SentenceSplitter(...).get_nodes_from_documents(documents): the nodes of every
\* document from number d on, in document order; counts[k] chunks for document k
SplitAll(docs, counts, d, first) ==
    IF d > Len(docs) THEN <<>>
    ELSE get_nodes(SentenceSplitter, docs[d], d, counts[d], first)
         \o SplitAll(docs, counts, d + 1, first + counts[d])

\* process_documents: nodes = node_parser.get_nodes_from_documents(documents)
SplitDocuments ==
    /\ script = "documents" /\ pc = "split"
    /\ \E counts \in [1..Len(documents) -> 0..MaxChunks] :
         /\ all_nodes' = SplitAll(documents, counts, 1, 0)
         /\ out' = out \cup {<<"created_chunks", Len(all_nodes')>>}
    /\ pc' = "embed"
    /\ UNCHANGED <<script, run, exit_status, dirExists, files, collection, pending, before,
                   documents, docIdx, points, upsertAt, batches, killedAt, toolVars>>

----------------------------------------------------------------------------
(* Embedder and record assembly *)

\* BuildPoints numbering the chunks within their document instead of over the run
BuildPoints_perDocument(nodes) ==
    [k \in 1..Len(nodes) |->
        PointStruct(nodes[k], nodes[k].text[2] - 1, Embedding(nodes[k].text))]

\* for i, node in enumerate(nodes): points.append(PointStruct(...))
BuildPoints(nodes) ==
    [k \in 1..Len(nodes) |-> PointStruct(nodes[k], k - 1, Embedding(nodes[k].text))]

\* process_code: embeddings = get_text_embedding_batch(texts), then the points
EmbedBatch ==
    /\ script = "code" /\ pc = "embed"
    /\ \E ok \in BOOLEAN :
         IF ok THEN /\ points' = BuildPoints(all_nodes)
                    /\ pc' = "upsert"
                    /\ UNCHANGED <<exit_status, out>>
         ELSE /\ ErrorCreatingIndex({})
              /\ UNCHANGED points
    /\ upsertAt' = 0
    /\ UNCHANGED <<script, run, dirExists, files, collection, pending, before, documents,
                   docIdx, all_nodes, batches, killedAt, toolVars>>

\* process_documents: one get_text_embedding(node.text) per node, then the points
EmbedEach ==
    /\ script = "documents" /\ pc = "embed"
    /\ \E ok \in BOOLEAN :
         IF ok THEN /\ points' = BuildPoints(all_nodes)
                    /\ pc' = "upsert_all"
                    /\ UNCHANGED <<exit_status, out>>
         ELSE /\ ErrorCreatingIndex({})
              /\ UNCHANGED points
    /\ UNCHANGED <<script, run, dirExists, files, collection, pending, before, documents,
                   docIdx, all_nodes, upsertAt, batches, killedAt, toolVars>>

----------------------------------------------------------------------------
(* Loader/Upserter *)

Min(a, b) == IF a < b THEN a ELSE b

\* points[i:i + batch_size]
Slice(seq, i, size) == SubSeq(seq, i + 1, Min(i + size, Len(seq)))

\* what one client.upsert call can do: the store takes the batch and answers,
\* the store refuses it, or the store takes it and the answer is lost (timeout)
UpsertOutcomes == {"ok", "rejected", "timeout"}

\* UpsertBatch as an all-or-nothing load: a failed batch empties the collection again
UpsertBatch_rollback ==
    /\ script = "code" /\ pc = "upsert" /\ upsertAt < Len(points)
    /\ LET batch == Slice(points, upsertAt, batch_size)
       IN  /\ batches' = Append(batches, batch)
           /\ \E outcome \in UpsertOutcomes :
                IF outcome = "ok" /\ collection.exists
                THEN /\ pending' = Append(pending, batch)
                     /\ upsertAt' = upsertAt + batch_size
                     /\ out' = out \cup {<<"uploaded_batch", (upsertAt \div batch_size) + 1>>}
                     /\ UNCHANGED <<pc, exit_status, collection>>
                ELSE /\ pending' = <<>>
                     /\ collection' = [collection EXCEPT !.points = {}]
                     /\ ErrorCreatingIndex({})
                     /\ UNCHANGED upsertAt
    /\ UNCHANGED <<script, run, dirExists, files, before, documents, docIdx,
                   all_nodes, points, killedAt, toolVars>>

\* for i in range(0, total_points, batch_size): client.upsert(batch, wait=False)
UpsertBatch ==
    /\ script = "code" /\ pc = "upsert" /\ upsertAt < Len(points)
    /\ LET batch == Slice(points, upsertAt, batch_size)
       IN  /\ batches' = Append(batches, batch)
           /\ \E outcome \in UpsertOutcomes :
                /\ pending' = IF outcome # "rejected" /\ collection.exists
                              THEN Append(pending, batch) ELSE pending
                /\ IF outcome = "ok" /\ collection.exists
                   THEN /\ upsertAt' = upsertAt + batch_size
                        /\ out' = out \cup {<<"uploaded_batch", (upsertAt \div batch_size) + 1>>}
                        /\ UNCHANGED <<pc, exit_status>>
                   ELSE /\ ErrorCreatingIndex({})
                        /\ UNCHANGED upsertAt
    /\ UNCHANGED <<script, run, dirExists, files, collection, before, documents, docIdx,
                   all_nodes, points, killedAt, toolVars>>

\* print(f"Successfully stored {total_points} chunks")
FinishUpsert ==
    /\ script = "code" /\ pc = "upsert" /\ upsertAt >= Len(points)
    /\ pc' = "final"
    /\ out' = out \cup {<<"successfully_stored", Len(points)>>}
    /\ UNCHANGED <<script, run, exit_status, pipeVars, toolVars>>

\* process_documents: client.upsert(points=points, wait=True)
UpsertAll ==
    /\ script = "documents" /\ pc = "upsert_all"
    /\ batches' = Append(batches, points)
    /\ \E outcome \in UpsertOutcomes :
         /\ collection' = IF outcome # "rejected" /\ collection.exists
                          THEN [collection EXCEPT !.points = Upserted(@, points)]
                          ELSE collection
         /\ IF outcome = "ok" /\ collection.exists
            THEN /\ pc' = "final"
                 /\ out' = out \cup {<<"successfully_stored", Len(points)>>}
                 /\ UNCHANGED exit_status
            ELSE ErrorCreatingIndex({})
    /\ UNCHANGED <<script, run, dirExists, files, pending, before, documents, docIdx,
                   all_nodes, points, upsertAt, killedAt, toolVars>>

\* collections_after = client.get_collections(); info = client.get_collection(name);
\* print the points_count; then the closing message
FinalCheck ==
    /\ script \in Pipelines /\ pc = "final"
    /\ \E ok \in BOOLEAN :
         IF ok
         THEN Return({<<"points_count", Cardinality(collection.points)>>,
                      <<"successfully_processed", 0>>})
         ELSE ErrorCreatingIndex({})
    /\ UNCHANGED <<script, run, pipeVars, toolVars>>

----------------------------------------------------------------------------
(* The environment of a pipeline *)

\* the store applies the oldest acknowledged batch
ServerApply ==
    /\ script \in Pipelines
    /\ pending # <<>> /\ collection.exists
    /\ collection' = [collection EXCEPT !.points = Upserted(@, Head(pending))]
    /\ pending' = Tail(pending)
    /\ UNCHANGED <<script, run, pc, exit_status, out, dirExists, files, before, documents,
                   docIdx, all_nodes, points, upsertAt, batches, killedAt, toolVars>>

\* the operator interrupts the process (the only cancellation there is)
Terminate ==
    /\ script \in Pipelines /\ Running
    /\ killedAt' = pc
    /\ pc' = "killed"
    /\ exit_status' = 130
    /\ UNCHANGED <<script, run, out, dirExists, files, collection, pending, before,
                   documents, docIdx, all_nodes, points, upsertAt, batches, toolVars>>

\* the operator runs the same script again: python process_*.py <path> <collection>
RunAgain ==
    /\ script \in Pipelines /\ ~Running /\ run < MaxRuns
    /\ run' = run + 1
    /\ pc' = StartPc(script)
    /\ exit_status' = -1
    /\ out' = {}
    /\ before' = collection
    /\ documents' = <<>>
    /\ docIdx' = 1
    /\ all_nodes' = <<>>
    /\ points' = <<>>
    /\ upsertAt' = 0
    /\ batches' = <<>>
    /\ killedAt' = ""
    /\ UNCHANGED <<script, dirExists, files, collection, pending, toolVars>>

----------------------------------------------------------------------------
(* The file-deletion tool: delete_non_text_files.py *)

\* the files the directory tree may hold: the directories above the file (below
\* the root), its name, mimetypes.guess_type of the name, what its first 8192
\* bytes are, and whether open() and os.remove() succeed on it
TreeFiles ==
    { [dirs |-> << <<"s">> >>,      name |-> <<"p", ".", "b">>, mime |-> <<"image", "png">>,
       content |-> "null_bytes", readable |-> TRUE,  removable |-> TRUE],
      [dirs |-> << <<".", "c">> >>, name |-> <<"o", ".", "b">>, mime |-> <<>>,
       content |-> "null_bytes", readable |-> TRUE,  removable |-> TRUE],
      [dirs |-> <<>>,               name |-> <<".", "e">>,      mime |-> <<>>,
       content |-> "null_bytes", readable |-> TRUE,  removable |-> TRUE],
      [dirs |-> <<>>,               name |-> <<"n", ".", "x">>, mime |-> <<"text", "plain">>,
       content |-> "null_bytes", readable |-> TRUE,  removable |-> TRUE],
      [dirs |-> << <<"s">> >>,      name |-> <<"x", ".", "y">>, mime |-> <<>>,
       content |-> "not_utf8",   readable |-> TRUE,  removable |-> TRUE],
      [dirs |-> <<>>,               name |-> <<"z">>,           mime |-> <<>>,
       content |-> "utf8",       readable |-> FALSE, removable |-> FALSE],
      [dirs |-> <<>>,               name |-> <<"w">>,           mime |-> <<>>,
       content |-> "utf8",       readable |-> FALSE, removable |-> TRUE],
      [dirs |-> << <<"s">>, <<".", "c">> >>, name |-> <<"q", ".", "b">>, mime |-> <<>>,
       content |-> "null_bytes", readable |-> TRUE,  removable |-> TRUE],
      [dirs |-> << <<".", "c">>, <<"s">> >>, name |-> <<"r", ".", "b">>, mime |-> <<>>,
       content |-> "null_bytes", readable |-> TRUE,  removable |-> TRUE] }

\* s.startswith('.')
startswith_dot(s) == Len(s) > 0 /\ s[1] = "."

\* chunk.decode(encoding) succeeds
decodes(content, encoding) ==
    CASE encoding = "utf-8"   -> content \in {"utf8", "empty"}
      [] encoding = "latin-1" -> TRUE
      [] encoding = "ascii"   -> content \in {"empty"}
      [] encoding = "utf-16"  -> content \in {"empty"}

is_text_file(f) ==
    IF f.mime # <<>> /\ f.mime[1] = "text" THEN TRUE
    ELSE IF ~f.readable THEN FALSE
    ELSE IF f.content = "empty" THEN TRUE
    ELSE IF f.content = "null_bytes" THEN FALSE
    ELSE IF decodes(f.content, "utf-8") THEN TRUE
    ELSE \E encoding \in {"latin-1", "ascii", "utf-16"} : decodes(f.content, encoding)

\* walked with `dirs = [...]` in place of `dirs[:] = [...]`: os.walk still descends
\* into the hidden directories
walked_noPrune(t) == {f \in t : ~startswith_dot(f.name)}

\* the files os.walk reaches with hidden directories pruned, hidden files skipped
walked(t) ==
    {f \in t : /\ \A k \in 1..Len(f.dirs) : ~startswith_dot(f.dirs[k])
               /\ ~startswith_dot(f.name)}

\* delete_non_text_files(directory, dry_run): (deleted_files, errors, files left)
delete_non_text_files(t, dry_run) ==
    LET nontext == {f \in walked(t) : ~is_text_file(f)}
        errors  == IF dry_run THEN {} ELSE {f \in nontext : ~f.removable}
        deleted == nontext \ errors
    IN  [deleted_files |-> deleted,
         errors        |-> errors,
         tree          |-> IF dry_run THEN t ELSE t \ deleted]

\* what the user may type at the prompt
Responses ==
    { <<"y", "e", "s">>, <<"Y", "E", "S">>, <<"Y">>, <<"y">>, <<"Y", "e", "s">>,
      <<"n", "o">>, <<"N">>, <<>>, <<"y", "e">>, <<"y", "e", "s", " ">>, <<"o", "k">> }

InitTool ==
    /\ script = "delete"
    /\ run = 1
    /\ pc = "validate"
    /\ exit_status = -1
    /\ out = {}
    /\ args \in [dry_run : BOOLEAN, yes : BOOLEAN, directory : {"missing", "file", "dir"}]
    /\ response = <<>>
    /\ tree \in (IF args.directory = "dir" THEN SUBSET TreeFiles ELSE {{}})
    /\ deleteCalls = 0
    /\ dirExists = FALSE
    /\ files = <<>>
    /\ collection = NoCollection
    /\ pending = <<>>
    /\ before = NoCollection
    /\ documents = <<>>
    /\ docIdx = 1
    /\ all_nodes = <<>>
    /\ points = <<>>
    /\ upsertAt = 0
    /\ batches = <<>>
    /\ killedAt = ""

\* main(): if not directory.exists() / not directory.is_dir(): sys.exit(1)
Validate ==
    /\ script = "delete" /\ pc = "validate"
    /\ IF args.directory = "dir"
       THEN /\ pc' = "confirm"
            /\ UNCHANGED <<exit_status, out>>
       ELSE /\ pc' = "exited"
            /\ exit_status' = 1
            /\ out' = out \cup {IF args.directory = "missing"
                                THEN <<"error_does_not_exist", 0>>
                                ELSE <<"error_not_a_directory", 0>>}
    /\ UNCHANGED <<script, run, pipeVars, toolVars>>

\* declined with a deny-list: only "no" and "n" abort
declined_denylist(typed) == lower(typed) \in {<<"n", "o">>, <<"n">>}

\* if response.lower() not in ['yes', 'y']
declined(typed) == lower(typed) \notin {<<"y", "e", "s">>, <<"y">>}

\* main(): the confirmation prompt
Confirm ==
    /\ script = "delete" /\ pc = "confirm"
    /\ IF ~args.dry_run /\ ~args.yes
       THEN \E typed \in Responses :
              /\ response' = typed
              /\ IF declined(typed)
                 THEN /\ pc' = "exited"
                      /\ exit_status' = 0
                      /\ out' = out \cup {<<"this_will_delete", 0>>, <<"aborted", 0>>}
                 ELSE /\ pc' = "process"
                      /\ out' = out \cup {<<"this_will_delete", 0>>}
                      /\ UNCHANGED exit_status
       ELSE /\ pc' = "process"
            /\ UNCHANGED <<exit_status, out, response>>
    /\ UNCHANGED <<script, run, pipeVars, args, tree, deleteCalls>>

\* main(): deleted_files, errors = delete_non_text_files(directory, args.dry_run),
\* then the summary; main returns and the process ends with status 0
ProcessFiles ==
    /\ script = "delete" /\ pc = "process"
    /\ LET r == delete_non_text_files(tree, args.dry_run)
       IN  /\ tree' = r.tree
           /\ out' = out \cup {<<"deleted", Cardinality(r.deleted_files)>>}
                         \cup (IF r.errors # {} THEN {<<"errors", Cardinality(r.errors)>>} ELSE {})
    /\ deleteCalls' = deleteCalls + 1
    /\ pc' = "exited"
    /\ exit_status' = 0
    /\ UNCHANGED <<script, run, pipeVars, args, response>>

----------------------------------------------------------------------------

Init == InitPipeline \/ InitTool

Next ==
    \/ LoadMappings
    \/ Connect
    \/ DeleteCollection
    \/ CreateCollection
    \/ CheckDir
    \/ LoadData
    \/ ChunkDoc
    \/ CheckNodes
    \/ SplitDocuments
    \/ EmbedBatch
    \/ EmbedEach
    \/ UpsertBatch
    \/ FinishUpsert
    \/ UpsertAll
    \/ FinalCheck
    \/ ServerApply
    \/ Terminate
    \/ RunAgain
    \/ Validate
    \/ Confirm
    \/ ProcessFiles

Spec == Init /\ [][Next]_vars

----------------------------------------------------------------------------
(* Vocabulary of the properties *)

Range(seq) == {seq[k] : k \in 1..Len(seq)}

Printed(tag) == <<tag, 0>> \in out

\* positions after the Collection Manager step (delete-if-exists, create)
PastCollectionManager(p) ==
    p \in {"checkdir", "load", "chunk", "split", "embed", "upsert", "upsert_all", "final"}

\* the current invocation has destroyed and recreated the collection
Rebuilt ==
    /\ script \in Pipelines
    /\ \/ PastCollectionManager(pc)
       \/ pc = "killed" /\ PastCollectionManager(killedAt)
       \/ pc = "exited" /\ Printed("connected") /\ exit_status = 0

\* the records the store holds or has acknowledged
Accepted == collection.points \cup UNION {Range(pending[k]) : k \in 1..Len(pending)}

----------------------------------------------------------------------------
(* C1 *)

\* C1 as stated: a run that finds the source directory missing creates it, loads
\* no document, exits 0 and leaves the collection as it was when the run started.
C1_MissingDirLeavesCollection ==
    (script \in Pipelines /\ pc = "exited" /\ Printed("creating_directory"))
        => /\ dirExists
           /\ documents = <<>>
           /\ exit_status = 0
           /\ collection = before

\* C1, amended: a run that finds the source directory missing creates the
\* directory, loads no document, writes nothing and exits 0; by then it has
\* rebuilt the collection: destroyed it if it existed and created it anew, empty,
\* with the declared schema.
C1_MissingDirRebuildsCollection ==
    (script \in Pipelines /\ pc = "exited" /\ Printed("creating_directory"))
        => /\ dirExists
           /\ files = <<>>
           /\ documents = <<>> /\ points = <<>> /\ batches = <<>>
           /\ Printed("please_add_files_and_run_again")
           /\ exit_status = 0
           /\ collection = EmptyCollection
           /\ pending = <<>>
           /\ Printed("deleted_existing_collection") \/ Printed("collection_doesnt_exist_yet")

\* a run found the directory missing while the collection held records
C1_Witness ==
    /\ script \in Pipelines /\ pc = "exited" /\ Printed("creating_directory")
    /\ before.exists /\ before.points # {}
    /\ Printed("deleted_existing_collection")

----------------------------------------------------------------------------
(* C2 *)

\* ceil(n / b)
CeilDiv(n, b) == (n + b - 1) \div b

\* C2: once a run reports N >= 1 records stored, it has issued exactly
\* ceil(N / batch_size) upsert batches, in record order, every batch but the
\* last of exactly batch_size records, the last of 1..batch_size records, every
\* record in exactly one batch.
C2_BatchSizeInvariant ==
    (script \in Pipelines /\ <<"successfully_stored", Len(points)>> \in out /\ Len(points) >= 1)
        => LET N == Len(points)
               K == Len(batches)
           IN  /\ K = CeilDiv(N, batch_size)
               /\ \A j \in 1..K :
                    /\ j < K => Len(batches[j]) = batch_size
                    /\ Len(batches[j]) \in 1..batch_size
                    /\ batches[j] = SubSeq(points, (j - 1) * batch_size + 1,
                                           (j - 1) * batch_size + Len(batches[j]))

----------------------------------------------------------------------------
(* C3 *)

\* two stored records are the same chunk stored twice
SameChunk(p, q) ==
    /\ p # q
    /\ \/ p.id = q.id
       \/ /\ p.payload.document = q.payload.document
          /\ p.payload.metadata.file_path = q.payload.metadata.file_path

\* C3: once a run has rebuilt the collection, the store holds and has
\* acknowledged only records of that run (none of an earlier run survives), no
\* chunk is stored twice, and when the run has reported its records stored and
\* the store has applied every write, the collection holds exactly that run's
\* records.
C3_RebuildSemantics ==
    Rebuilt =>
        /\ Accepted \subseteq Range(points)
        /\ \A p, q \in collection.points : ~SameChunk(p, q)
        /\ (<<"successfully_stored", Len(points)>> \in out /\ pending = <<>>)
               => collection.points = Range(points)

\* the second run has loaded its records into a collection that held the first run's
C3_Witness ==
    /\ script \in Pipelines /\ run = 2 /\ pc = "exited" /\ Printed("successfully_processed")
    /\ \E p \in before.points : p.id[1] = 1
    /\ pending = <<>>
    /\ Cardinality(collection.points) >= 2
    /\ \A p \in collection.points : p.id[1] = 2

----------------------------------------------------------------------------
(* C4 *)

\* the diagnostics of a failed connection, Collection Manager, Embedder or Loader
FailureDiagnostics == {<<"failed_to_connect", 0>>, <<"error_creating_index", 0>>, <<"traceback", 0>>}

\* C4: a run in which the connection, the Collection Manager, the Embedder or
\* the Loader/Upserter failed has printed a diagnostic and ends with a non-zero
\* exit status; a run ends with status 0 only when none of them failed.
C4_FailureExitsNonZero ==
    (script \in Pipelines /\ pc = "exited")
        => (exit_status = 0 <=> out \cap FailureDiagnostics = {})

----------------------------------------------------------------------------
(* C5 *)

\* the extensions of the mapping table
MappedExtensions == UNION {language_mappings[k][2] : k \in 1..Len(language_mappings)}

\* the file of document d has a mapped extension
Mapped(d) == lower(suffix(documents[d].file_path)) \in MappedExtensions

\* the nodes of document d produced so far
NodesOf(d) == {all_nodes[k] : k \in {j \in 1..Len(all_nodes) : all_nodes[j].text[1] = d}}

\* C5: when the structure-aware path failed for a document of mapped language,
\* the fallback was logged, the document's chunks come from the generic
\* splitter (chunk size 512, overlap 50), the loop went on to the next
\* document, and the run ends only after every document was processed, never
\* with the status of an uncaught exception.
C5_FallbackRecovers ==
    script = "code" =>
        \A d \in 1..Len(documents) :
            <<"codesplitter_failed", d>> \in out =>
                /\ Mapped(d)
                /\ <<"falling_back_to_sentencesplitter", d>> \in out
                /\ \A node \in NodesOf(d) :
                     node.splitter = [kind |-> "SentenceSplitter", chunk |-> 512, overlap |-> 50]
                /\ d < docIdx
                /\ pc = "exited" => (docIdx > Len(documents) /\ exit_status = 0)

\* the first document fell back and has chunks, the next was split structure-aware,
\* and the run completed its load
C5_Witness ==
    /\ script = "code" /\ pc = "exited" /\ Printed("successfully_processed")
    /\ Len(documents) >= 2
    /\ <<"codesplitter_failed", 1>> \in out
    /\ NodesOf(1) # {}
    /\ <<"processed", 2>> \in out
    /\ \E node \in NodesOf(2) : node.splitter.kind = "CodeSplitter"

----------------------------------------------------------------------------
(* C6 *)

----------------------------------------------------------------------------
(* C7 *)

\* the run ended in the write of its last issued batch
FailedWrite ==
    /\ script \in Pipelines /\ pc = "exited"
    /\ batches # <<>>
    /\ <<"successfully_stored", Len(points)>> \notin out

\* C7: when the write of a batch failed, the records of every batch issued
\* before it are still held by the store (applied or acknowledged), and the run
\* has printed the error and has not reported the load as stored or processed.
C7_NoRollback ==
    FailedWrite =>
        /\ \A j \in 1..(Len(batches) - 1) : Range(batches[j]) \subseteq Accepted
        /\ Printed("error_creating_index")
        /\ ~Printed("successfully_processed")

\* the second batch failed after the store applied the first
C7_Witness ==
    /\ FailedWrite
    /\ Len(batches) = 2
    /\ pending = <<>>
    /\ Range(batches[1]) \subseteq collection.points
    /\ ~(Range(batches[2]) \subseteq collection.points)

----------------------------------------------------------------------------
(* C8 *)

chunk_id(p) == p.payload.metadata.chunk_id

\* C8: no two records assembled in one run share a chunk_id, and neither do
\* two records of one run held by the store.
C8_ChunkIdUnique ==
    /\ \A i, j \in 1..Len(points) : i # j => chunk_id(points[i]) # chunk_id(points[j])
    /\ \A p, q \in Accepted : (p # q /\ p.id[1] = q.id[1]) => chunk_id(p) # chunk_id(q)

\* records of two documents, one split structure-aware and one by the fallback
C8_Witness ==
    /\ script = "code" /\ Len(points) >= 3 /\ Len(points) = Len(all_nodes)
    /\ \E i, j \in 1..Len(all_nodes) :
         /\ all_nodes[i].file_path # all_nodes[j].file_path
         /\ all_nodes[i].splitter.kind = "CodeSplitter"
         /\ all_nodes[j].splitter.kind = "SentenceSplitter"
    /\ Range(points) \subseteq collection.points

----------------------------------------------------------------------------
(* C9 *)

DeclaredSchema == [name |-> "fast-all-minilm-l6-v2", size |-> 384, distance |-> "Cosine"]

\* a complete record: its text, its metadata and one vector of the schema's
\* dimension under the schema's vector name
Complete(p) ==
    /\ DOMAIN p = {"id", "vector", "payload"}
    /\ DOMAIN p.payload = {"document", "metadata"}
    /\ DOMAIN p.payload.metadata = {"file_path", "file_name", "chunk_id", "node_id"}
    /\ p.payload.metadata.node_id = p.id
    /\ p.vector.name = collection.schema.name
    /\ p.vector.embedding.dim = collection.schema.size

\* C9 as stated: wherever the process is terminated, the collection exists
\* with the declared schema and holds only complete records of the current run.
C9_TerminatedAnywhere ==
    (script \in Pipelines /\ pc = "killed") =>
        /\ collection.exists
        /\ collection.schema = DeclaredSchema
        /\ Accepted \subseteq Range(points)
        /\ \A p \in Accepted : Complete(p)

\* C9, amended: terminated after the run's Collection Manager step, the
\* collection exists with the declared schema and holds only complete records
\* of the current run; terminated earlier, it is absent or holds, with the
\* declared schema, only complete records of earlier runs.
C9_TerminationLeavesValid ==
    (script \in Pipelines /\ pc = "killed") =>
        IF PastCollectionManager(killedAt)
        THEN /\ collection.exists
             /\ collection.schema = DeclaredSchema
             /\ Accepted \subseteq Range(points)
             /\ \A p \in Accepted : Complete(p)
        ELSE \/ ~collection.exists /\ Accepted = {}
             \/ /\ collection.exists
                /\ collection.schema = DeclaredSchema
                /\ \A p \in Accepted : Complete(p) /\ p.id[1] < run

\* terminated in the batch loop with part of the run's records stored
C9_Witness ==
    /\ script = "code" /\ pc = "killed" /\ killedAt = "upsert"
    /\ collection.points # {}
    /\ collection.points # Range(points)
    /\ collection.points \subseteq Range(points)

----------------------------------------------------------------------------
(* C10 *)

\* "yes" and "y" in every mix of cases
YesAnswers ==
    {<<a>> : a \in {"y", "Y"}}
        \cup {<<a, b, c>> : a \in {"y", "Y"}, b \in {"e", "E"}, c \in {"s", "S"}}

\* the prompt was shown and answered with something other than yes
Declined ==
    /\ script = "delete"
    /\ ~args.dry_run /\ ~args.yes
    /\ Printed("this_will_delete")
    /\ response \notin YesAnswers

\* C10: once the prompt is answered with anything but "yes" or "y" (in any
\* case), the tool has printed "Aborted." and exited with status 0 without
\* calling delete_non_text_files; and no file ever leaves the tree except in a
\* call of delete_non_text_files.
C10_DeclineIsCleanAbort ==
    /\ [](Declined => /\ Printed("aborted")
                      /\ pc = "exited"
                      /\ exit_status = 0
                      /\ deleteCalls = 0)
    /\ [][tree' # tree => (deleteCalls' = deleteCalls + 1 /\ ~Declined)]_vars

\* the user declined while the tree held a file the tool would have deleted
C10_Witness ==
    /\ Declined /\ pc = "exited"
    /\ response = <<"y", "e", "s", " ">>
    /\ \E f \in tree : f \in delete_non_text_files(tree, FALSE).deleted_files

----------------------------------------------------------------------------
(* C11 *)

\* the file is dot-prefixed, or a directory between the root and it is
Hidden(f) == f.name[1] = "." \/ \E k \in 1..Len(f.dirs) : f.dirs[k][1] = "."

\* C11: in every step the tree only loses files, each file it loses is
\* classified non-text, is not dot-prefixed and lies under no dot-prefixed
\* directory below the root; every other file stays as it was; and under
\* --dry-run the tree does not change at all.
C11_RemovesOnlyVisibleNonText ==
    [][/\ tree' \subseteq tree
       /\ \A f \in tree \ tree' : ~is_text_file(f) /\ ~Hidden(f)
       /\ args.dry_run => tree' = tree]_vars

\* a real run deleted files and left behind non-text files that are hidden, lie
\* below a hidden directory at either depth, or are text
C11_Witness ==
    /\ script = "delete" /\ pc = "exited" /\ deleteCalls = 1 /\ ~args.dry_run
    /\ <<"deleted", 2>> \in out
    /\ \E f \in tree : ~is_text_file(f) /\ f.name[1] = "."
    /\ \E f \in tree : ~is_text_file(f) /\ Len(f.dirs) = 2 /\ f.dirs[2][1] = "."
    /\ \E f \in tree : ~is_text_file(f) /\ Len(f.dirs) = 2 /\ f.dirs[1][1] = "."
    /\ \E f \in tree : is_text_file(f) /\ ~Hidden(f)

====
